---- MODULE Spec2Model ----
(***************************************************************************)
(* TI/LMI SYSV disk tool (unixtool.c): the read-only decoder of a          *)
(* big-endian SysV filesystem image.  The model covers the byte-order      *)
(* layer, the block device, the inode decoder, the block resolver, the     *)
(* directory walk, the listing loop and the extraction loop.               *)
(*                                                                         *)
(* A 32-bit word is a tuple of four bytes, most significant first; a       *)
(* 16-bit halfword is an integer.  The host is little-endian, as the tool  *)
(* assumes: a word loaded from the image has the image's first byte as its *)
(* least significant byte.                                                 *)
(***************************************************************************)
EXTENDS Integers, Sequences, FiniteSets, TLC

\* ------------------------------------------------------------------------
\* Program constants
\* ------------------------------------------------------------------------
BlockSize == 1024
EntriesPerBlock == 64
DirentSize == 16
NameLen == 14
NDirect == 10
SingleLimit == 266
DoubleLimit == 65802
TableEntries == 256
NAddr == 13
InodeBase == 1984
InodeSize == 64
RootIno == 2
SuperBlockNo == 1
MagicOffset == 1016
SUPER_MAGIC == 545134845
INODE_FT_FIFO == 1
INODE_FT_CHAR == 2
INODE_FT_DIR == 4
INODE_FT_BLK == 6
INODE_FT_FILE == 8

\* ------------------------------------------------------------------------
\* Bounds of the model
\* ------------------------------------------------------------------------
\* the largest file of the whole-program runs, in blocks beyond the direct
\* addresses (so that the copy loop enters the single-indirect tier)
MaxIndirectBlocks == 2
\* the entries of a listed block at which an inode read may fail: the first
\* MaxListFail ones
MaxListFail == 2

VARIABLES img, args, pc, disk_fd, file_fd, superblock_magic,
          dir_inode, file_inode, pathidx, dirblock, fileblock, x, rv,
          dir_inode_number, file_inode_number, dir_buffer, file_buffer,
          out, listed, sink, disklog, inodelog, scanned, curdir, call

vars == <<img, args, pc, disk_fd, file_fd, superblock_magic,
          dir_inode, file_inode, pathidx, dirblock, fileblock, x, rv,
          dir_inode_number, file_inode_number, dir_buffer, file_buffer,
          out, listed, sink, disklog, inodelog, scanned, curdir, call>>

\* ------------------------------------------------------------------------
\* Byte-order layer
\* ------------------------------------------------------------------------
swap_word(in) == <<in[4], in[3], in[2], in[1]>>

swap_hword(in) == ((in % 256) * 256) + ((in \div 256) % 256)

\* the value of a word as the int the code assigns it to
WordVal(w) == ((w[1] * 256 + w[2]) * 256 + w[3]) * 256 + w[4]

\* the image's bytes of a big-endian 32-bit / 16-bit quantity, in file order
Bytes4(v) == <<(v \div 16777216) % 256, (v \div 65536) % 256,
               (v \div 256) % 256, v % 256>>

Bytes3(v) == <<(v \div 65536) % 256, (v \div 256) % 256, v % 256>>

Bytes2(v) == <<(v \div 256) % 256, v % 256>>

\* what the little-endian host sees when a struct field overlays the bytes
Load32(m) == <<m[4], m[3], m[2], m[1]>>

Load16(m) == m[1] + m[2] * 256

\* ------------------------------------------------------------------------
\* The synthetic image: its layout follows from the parameters in img
\* ------------------------------------------------------------------------
Ino == [root |-> RootIno, bin |-> 10, sh |-> 42, foo |-> 5, tty |-> 7]

Name == [bin |-> <<98, 105, 110>>, sh |-> <<115, 104>>,
         foo |-> <<102, 111, 111>>, tty |-> <<116, 116, 121>>,
         nope |-> <<110, 111, 112, 101>>, x |-> <<120>>,
         long |-> [k \in 1..(NameLen + 1) |-> 97]]

\* the first block behind the inode records the image uses
FirstFree == ((InodeBase + Ino.sh * InodeSize) \div BlockSize) + 1

RootBlk(k) == FirstFree + k

BinBlk(k) == FirstFree + 4 + k

FooBlk == FirstFree + 3

T1 == FirstFree + 8

T2 == FirstFree + 9

DataBlk(i) == FirstFree + 10 + i

T3(f) == FirstFree + 10 + DoubleLimit + f

WholeImage == FirstFree + 10 + DoubleLimit + TableEntries

\* the physical block of logical block i of the file sh (0: none)
Phys(i) == IF i < img.mapLen /\ i # img.hole THEN DataBlk(i) ELSE 0

IsT3(b) == b >= T3(0) /\ b < T3(TableEntries)

IsTable(b) == b = T1 \/ b = T2 \/ IsT3(b)

\* entry off (0-based) of the indirect table in block b
TableValue(b, off) ==
    IF b = T1 THEN Phys(NDirect + off)
    ELSE IF b = T2
         THEN (IF img.mapLen > SingleLimit + off * TableEntries THEN T3(off) ELSE 0)
         ELSE Phys(SingleLimit + (b - T3(0)) * TableEntries + off)

\* the same entry as the host loads it from the image
RawTable(b, off) == Load32(Bytes4(TableValue(b, off)))

PadName(s) == [k \in 1..NameLen |-> IF k <= Len(s) THEN s[k] ELSE 0]

Entry(ino, s) == [inode |-> Load16(Bytes2(ino)), name |-> PadName(s)]

ZeroEntry == Entry(0, <<>>)

Filler(k) == Entry(Ino.foo, <<102, k>>)

\* a directory block: n leading entries, the special ones given by sp
MkBlock(n, sp) ==
    [k \in 1..EntriesPerBlock |->
        IF k \in DOMAIN sp THEN sp[k]
        ELSE IF k <= n THEN Filler(k) ELSE ZeroEntry]

EBin == Entry(Ino.bin, Name.bin)

EFoo == Entry(Ino.foo, Name.foo)

ETty == Entry(Ino.tty, Name.tty)

ESh == Entry(Ino.sh, Name.sh)

RootShapes ==
    [plain   |-> <<MkBlock(3, (1 :> EBin) @@ (2 :> EFoo) @@ (3 :> ETty))>>,
     second  |-> <<MkBlock(EntriesPerBlock, <<>>),
                   MkBlock(2, (1 :> EBin) @@ (2 :> EFoo))>>,
     early   |-> <<MkBlock(2, (2 :> ZeroEntry)),
                   MkBlock(1, (1 :> EBin))>>,
     last    |-> <<MkBlock(EntriesPerBlock, (EntriesPerBlock :> EBin))>>,
     tomb    |-> <<MkBlock(3, (1 :> EFoo) @@ (2 :> ZeroEntry) @@ (3 :> EBin))>>,
     single  |-> <<MkBlock(1, (1 :> EFoo))>>]

BinShapes ==
    [plain   |-> <<MkBlock(1, (1 :> ESh))>>,
     second  |-> <<MkBlock(EntriesPerBlock, <<>>), MkBlock(1, (1 :> ESh))>>,
     full    |-> <<MkBlock(EntriesPerBlock, (7 :> ESh))>>,
     empty   |-> <<>>]

DirBlocks(ino) ==
    IF ino = Ino.root THEN RootShapes[img.root]
    ELSE IF ino = Ino.bin THEN BinShapes[img.bin] ELSE <<>>

\* entry k (1-based) of the directory block stored in physical block b
DirEntryAt(b, k) ==
    IF b >= RootBlk(0) /\ b < RootBlk(Len(RootShapes[img.root]))
    THEN RootShapes[img.root][b - RootBlk(0) + 1][k]
    ELSE IF b >= BinBlk(0) /\ b < BinBlk(Len(BinShapes[img.bin]))
         THEN BinShapes[img.bin][b - BinBlk(0) + 1][k]
         ELSE ZeroEntry

\* the 13 addresses of an inode of the image
AddrOf(ino) ==
    [a \in 1..NAddr |->
        IF ino = Ino.root
        THEN (IF a <= Len(RootShapes[img.root]) THEN RootBlk(a - 1) ELSE 0)
        ELSE IF ino = Ino.bin
        THEN (IF a <= Len(BinShapes[img.bin]) THEN BinBlk(a - 1) ELSE 0)
        ELSE IF ino = Ino.sh
        THEN (IF a <= NDirect THEN Phys(a - 1)
              ELSE IF a = NDirect + 1
                   THEN (IF img.mapLen > NDirect THEN T1 ELSE 0)
              ELSE IF a = NDirect + 2
                   THEN (IF img.mapLen > SingleLimit THEN T2 ELSE 0)
              ELSE 0)
        ELSE IF ino = Ino.foo
        THEN (IF a = 1 THEN FooBlk ELSE 0)
        ELSE 0]

TypeOf(ino) ==
    IF ino \in {Ino.root, Ino.bin} THEN INODE_FT_DIR
    ELSE IF ino \in {Ino.sh, Ino.foo} THEN INODE_FT_FILE
    ELSE IF ino = Ino.tty THEN INODE_FT_CHAR ELSE 0

SizeOf(ino) ==
    IF ino = Ino.sh THEN img.fsize
    ELSE IF ino = Ino.foo THEN 10
    ELSE BlockSize * Len(DirBlocks(ino))

\* the 64-byte inode record of the image, as the fields the tool decodes
DiskInode(ino) ==
    [mode |-> <<TypeOf(ino) * 16 + 1, 237>>,
     size |-> Bytes4(SizeOf(ino)),
     addr |-> [k \in 1..(3 * NAddr) |->
                 Bytes3(AddrOf(ino)[((k - 1) \div 3) + 1])[((k - 1) % 3) + 1]]]

\* ------------------------------------------------------------------------
\* read_inode
\* ------------------------------------------------------------------------
NoInode == [mode |-> 0, type |-> 0, size |-> 0, addr |-> [a \in 1..NAddr |-> 0]]

read_inode(number, failed) ==
    IF failed
    THEN [rv |-> -1, inode |-> NoInode]
    ELSE LET raw == DiskInode(number)
             raw_mode == Load16(raw.mode)
         IN [rv |-> 0,
             inode |->
               [mode |-> ((raw_mode \div 256) % 256) + ((raw_mode % 16) * 256),
                type |-> (raw_mode \div 16) % 16,
                size |-> WordVal(swap_word(Load32(raw.size))),
                addr |-> [a \in 1..NAddr |->
                            raw.addr[3 * (a - 1) + 1] * 65536
                            + raw.addr[3 * (a - 1) + 2] * 256
                            + raw.addr[3 * (a - 1) + 3]]]]

\* ------------------------------------------------------------------------
\* disk_block_read: the number of bytes read, or -1
\* ------------------------------------------------------------------------
disk_block_read(adr, failed) ==
    IF failed THEN -1
    ELSE IF adr < img.nblocks THEN BlockSize
    ELSE IF adr = img.nblocks THEN img.tail
    ELSE 0

\* entry off of the table buffer after a read of rvt bytes of block b; an
\* entry the read did not fill is whatever the stack held (junk), and so is
\* every entry of a block that holds no table
TableEntry(b, off, rvt, junk) ==
    IF IsTable(b) /\ (off + 1) * 4 <= rvt
    THEN WordVal(swap_word(RawTable(b, off)))
    ELSE junk

\* ------------------------------------------------------------------------
\* inode_block_read
\*   fail: which of the call's disk reads fails (0: none)
\*   the result: rv, the blocks read in order, the table offsets used, the
\*   physical block selected (-1: none) and whether the message was printed
\* ------------------------------------------------------------------------
Res(r, reads, offs, block, msg) ==
    [rv |-> r, reads |-> reads, offs |-> offs, block |-> block, msg |-> msg]

TRead(b) == [blk |-> b, as |-> "table"]

DRead(b) == [blk |-> b, as |-> "data"]

\* "if (adr < 10)": a direct address
ibr_direct(block, fail) ==
    IF block > 0
    THEN Res(disk_block_read(block, fail = 1), <<DRead(block)>>, <<>>, block, FALSE)
    ELSE Res(0, <<>>, <<>>, block, FALSE)

\* "if (adr < 266)": the table in block tbl was read with result rv1
ibr_single_block(tbl, off, rv1, block, fail) ==
    IF rv1 < 0
    THEN Res(rv1, <<TRead(tbl)>>, <<off>>, -1, FALSE)
    ELSE Res(disk_block_read(block, fail = 2),
             <<TRead(tbl), DRead(block)>>, <<off>>, block, FALSE)

ibr_single_table(tbl, off, rv1, fail, junk) ==
    ibr_single_block(tbl, off, rv1, TableEntry(tbl, off, rv1, junk), fail)

ibr_single(tbl, indirect_offset, fail, junk) ==
    ibr_single_table(tbl, indirect_offset, disk_block_read(tbl, fail = 1), fail, junk)

\* the mutant: the result of the first table read is looked at only after
\* the second table was read
ibr_double_block_late(tbl1, tbl2, offs, rv1, rv2, block, fail) ==
    IF rv1 < 0 \/ rv2 < 0
    THEN Res(IF rv1 < 0 THEN rv1 ELSE rv2, <<TRead(tbl1), TRead(tbl2)>>, offs, -1, FALSE)
    ELSE Res(disk_block_read(block, fail = 3),
             <<TRead(tbl1), TRead(tbl2), DRead(block)>>, offs, block, FALSE)

\* "if (adr < 65802)": both tables were read, with results rv1 and rv2
ibr_double_block(tbl1, tbl2, offs, rv1, rv2, block, fail) ==
    IF rv1 < 0
    THEN Res(rv1, <<TRead(tbl1)>>, offs, -1, FALSE)
    ELSE IF rv2 < 0
    THEN Res(rv2, <<TRead(tbl1), TRead(tbl2)>>, offs, -1, FALSE)
    ELSE Res(disk_block_read(block, fail = 3),
             <<TRead(tbl1), TRead(tbl2), DRead(block)>>, offs, block, FALSE)

ibr_double_second(tbl1, tbl2, offs, rv1, rv2, fail, junk) ==
    ibr_double_block(tbl1, tbl2, offs, rv1, rv2,
                     TableEntry(tbl2, offs[2], rv2, junk), fail)

ibr_double_first(tbl1, tbl2, offs, rv1, fail, junk) ==
    ibr_double_second(tbl1, tbl2, offs, rv1, disk_block_read(tbl2, fail = 2),
                      fail, junk)

ibr_double_table(tbl1, offs, rv1, fail, junk) ==
    ibr_double_first(tbl1, TableEntry(tbl1, offs[1], rv1, junk), offs, rv1, fail, junk)

ibr_double_offsets(tbl1, first_indirect_offset, rest, fail, junk) ==
    ibr_double_table(tbl1,
                     <<first_indirect_offset,
                       rest - (first_indirect_offset * TableEntries)>>,
                     disk_block_read(tbl1, fail = 1), fail, junk)

\* the mutant: the offsets are counted from the end of the direct addresses
ibr_double_from10(tbl1, adr, fail, junk) ==
    ibr_double_offsets(tbl1, (adr - NDirect) \div TableEntries,
                       adr - NDirect, fail, junk)

ibr_double(tbl1, adr, fail, junk) ==
    ibr_double_offsets(tbl1, (adr - SingleLimit) \div TableEntries,
                       adr - SingleLimit, fail, junk)

inode_block_read(adr, inode, fail, junk) ==
    IF adr < NDirect
    THEN ibr_direct(inode.addr[adr + 1], fail)
    ELSE IF adr < SingleLimit
    THEN ibr_single(inode.addr[NDirect + 1], adr - NDirect, fail, junk)
    ELSE IF adr < DoubleLimit
    THEN ibr_double(inode.addr[NDirect + 2], adr, fail, junk)
    ELSE Res(-1, <<>>, <<>>, -1, TRUE)

\* ------------------------------------------------------------------------
\* Directory buffers and the entry scan of unix_ls / unix_read
\* ------------------------------------------------------------------------
\* what a buffer holds behind the bytes the last read delivered
JunkDir == {"zero", "fill"}

JunkBlocks == {0, DataBlk(0)}

\* the buffer after inode_block_read returned r: the block's entries as far as
\* the read went, older content behind them
BufferOf(r, dj) == [blk |-> r.block, valid |-> r.rv, junk |-> dj]

BufEntry(buf, k) ==
    IF k * DirentSize <= buf.valid THEN DirEntryAt(buf.blk, k)
    ELSE IF buf.junk = "fill" THEN Filler(k) ELSE ZeroEntry

Min(S) == CHOOSE m \in S : \A o \in S : m <= o

\* the mutant: the entry loop does not end at a zero-inode entry
Leading_all(buf) == EntriesPerBlock

\* the value of x when "while (dir_entry->inode != 0 && x < 64)" ends without
\* a break: the number of leading entries with a non-zero inode
Leading(buf) ==
    LET Z == {k \in 1..EntriesPerBlock : BufEntry(buf, k).inode = 0}
    IN IF Z = {} THEN EntriesPerBlock ELSE Min(Z) - 1

RECURSIVE strncmp_eq(_, _, _)
\* strncmp(pathpart, name, 14) == 0, compared from character k on
strncmp_eq(s, f, k) ==
    IF k > NameLen THEN TRUE
    ELSE LET c == IF k <= Len(s) THEN s[k] ELSE 0
         IN IF c # f[k] THEN FALSE
            ELSE IF c = 0 THEN TRUE
            ELSE strncmp_eq(s, f, k + 1)

\* the scan of one directory block for pathpart, as the loop leaves it:
\* m is the first matching entry among the z leading ones (0: none)
ScanResult(buf, pathpart, z, m) ==
    IF z > 0 /\ Len(pathpart) > NameLen
    THEN [kind |-> "toolong", x |-> 0, ino |-> 0]
    ELSE IF m # 0
    THEN [kind |-> "match", x |-> m - 1, ino |-> swap_hword(BufEntry(buf, m).inode)]
    ELSE [kind |-> "nomatch", x |-> z, ino |-> 0]

FirstOf(M) == IF M = {} THEN 0 ELSE Min(M)

ScanLeading(buf, pathpart, z) ==
    ScanResult(buf, pathpart, z,
               FirstOf({k \in 1..z : strncmp_eq(pathpart, BufEntry(buf, k).name, 1)}))

ScanBlock(buf, pathpart) == ScanLeading(buf, pathpart, Leading(buf))

\* ------------------------------------------------------------------------
\* Initial states
\* ------------------------------------------------------------------------
Paths == {<<>>, <<Name.bin>>, <<Name.bin, Name.sh>>, <<Name.bin, Name.nope>>,
          <<Name.bin, Name.sh, Name.x>>, <<Name.foo>>, <<Name.tty>>,
          <<Name.nope>>, <<Name.long>>}

Args == {a \in [cmd : {"ls", "read", "other"}, abs : BOOLEAN, path : Paths] :
           /\ (~a.abs => a.path = <<Name.bin>>)
           /\ (a.cmd = "other" => a.path = <<>>)}

Blocks(size) == (size + BlockSize - 1) \div BlockSize

FileSizes == {0, 1, BlockSize - 1, BlockSize, BlockSize + 1, 3 * BlockSize,
              NDirect * BlockSize + 1,
              (NDirect + MaxIndirectBlocks) * BlockSize - 5}

DefaultImage ==
    [magic |-> SUPER_MAGIC, nblocks |-> WholeImage, tail |-> 0,
     root |-> "plain", bin |-> "plain",
     fsize |-> BlockSize + 1, mapLen |-> 2, hole |-> -1]

\* directories of every shape, the file as in DefaultImage
DirImages ==
    {[DefaultImage EXCEPT !.root = r, !.bin = b] :
        r \in DOMAIN RootShapes, b \in DOMAIN BinShapes}

\* files of every size and address map under /bin/sh
FileImages ==
    {[DefaultImage EXCEPT !.fsize = s, !.mapLen = m, !.hole = h] :
        s \in FileSizes,
        m \in 0..(NDirect + MaxIndirectBlocks + 1),
        h \in {-1, 0, NDirect}}

\* images that end early, and images with another magic
CutImages ==
    {[DefaultImage EXCEPT !.nblocks = n, !.tail = t, !.fsize = s, !.mapLen = Blocks(s)] :
        n \in {BinBlk(0), T1, DataBlk(1)}, t \in {0, BlockSize \div 2},
        s \in {3 * BlockSize, NDirect * BlockSize + 1}}

MagicImages == {[DefaultImage EXCEPT !.magic = m] : m \in {0, SUPER_MAGIC - 1}}

Scenario(i, a) ==
    \/ i \in DirImages /\ (i.bin # "plain" => i.root \in {"plain", "second"})
    \/ /\ i \in FileImages
       /\ a = [cmd |-> "read", abs |-> TRUE, path |-> <<Name.bin, Name.sh>>]
       /\ i.mapLen \in {Blocks(i.fsize) - 1, Blocks(i.fsize), Blocks(i.fsize) + 1}
       /\ i.hole < i.mapLen
    \/ /\ i \in CutImages
       /\ a.abs /\ a.path \in {<<Name.bin>>, <<Name.bin, Name.sh>>}
    \/ i \in MagicImages /\ a.path = <<Name.bin, Name.sh>>

Images == DirImages \cup FileImages \cup CutImages \cup MagicImages

NoBuf == [blk |-> 0, valid |-> 0, junk |-> "zero"]

NoCall == [adr |-> -1, by |-> "none", fail |-> 0, junk |-> 0,
           res |-> Res(0, <<>>, <<>>, -1, FALSE)]

Locals ==
    /\ disk_fd = "closed" /\ file_fd = "closed" /\ superblock_magic = 0
    /\ dir_inode = NoInode
    /\ pathidx = 0 /\ dirblock = 0 /\ fileblock = 0 /\ x = 0 /\ rv = 0
    /\ dir_inode_number = 0 /\ file_inode_number = 0
    /\ dir_buffer = NoBuf /\ file_buffer = NoBuf
    /\ out = <<>> /\ listed = <<>> /\ sink = <<>>
    /\ disklog = <<>> /\ inodelog = <<>> /\ scanned = <<>> /\ curdir = 0
    /\ call = NoCall

Init ==
    /\ img \in Images
    /\ args \in Args
    /\ Scenario(img, args)
    /\ pc = "main"
    /\ file_inode = NoInode
    /\ Locals

\* ------------------------------------------------------------------------
\* The program's steps.  A step computes the values the code leaves in its
\* variables; what it appends to the output, the sink and the read logs is
\* in msgs, writes, dreads, ireads, scans and lists.
\* ------------------------------------------------------------------------
Cur ==
    [pc |-> pc, rv |-> rv, disk_fd |-> disk_fd, file_fd |-> file_fd,
     superblock_magic |-> superblock_magic,
     dir_inode |-> dir_inode, file_inode |-> file_inode,
     pathidx |-> pathidx, dirblock |-> dirblock, fileblock |-> fileblock,
     x |-> x, dir_inode_number |-> dir_inode_number,
     file_inode_number |-> file_inode_number,
     dir_buffer |-> dir_buffer, file_buffer |-> file_buffer, curdir |-> curdir,
     msgs |-> <<>>, writes |-> <<>>, dreads |-> <<>>, ireads |-> <<>>,
     scans |-> <<>>, lists |-> <<>>]

Apply(o) ==
    /\ pc' = o.pc /\ rv' = o.rv
    /\ disk_fd' = o.disk_fd /\ file_fd' = o.file_fd
    /\ superblock_magic' = o.superblock_magic
    /\ dir_inode' = o.dir_inode /\ file_inode' = o.file_inode
    /\ pathidx' = o.pathidx /\ dirblock' = o.dirblock
    /\ fileblock' = o.fileblock /\ x' = o.x
    /\ dir_inode_number' = o.dir_inode_number
    /\ file_inode_number' = o.file_inode_number
    /\ dir_buffer' = o.dir_buffer /\ file_buffer' = o.file_buffer
    /\ out' = out \o o.msgs
    /\ sink' = sink \o o.writes
    /\ disklog' = disklog \o o.dreads
    /\ inodelog' = inodelog \o o.ireads
    /\ scanned' = scanned \o o.scans
    /\ listed' = listed \o o.lists
    /\ curdir' = o.curdir
    /\ UNCHANGED <<img, args>>

\* "return r" out of main, after printing msgs
Exit(o, r, msgs) == [o EXCEPT !.pc = "exit", !.rv = r, !.msgs = @ \o msgs]

\* the resolver's own message, if it printed one
ResMsg(r) == IF r.msg THEN <<"further_indirection">> ELSE <<>>

\* ---- main -------------------------------------------------------------
main_open(ok) ==
    IF ok THEN [Cur EXCEPT !.disk_fd = "open", !.pc = "super"]
    ELSE Exit(Cur, -1, <<"perror_disk_open">>)

\* the mutant: the magic is read and not compared
main_superblock_nocheck(failed) ==
    LET r == disk_block_read(SuperBlockNo, failed)
        magic == IF r >= MagicOffset + 4 THEN img.magic ELSE 0
        c == [Cur EXCEPT !.dreads = <<[blk |-> SuperBlockNo, as |-> "super"]>>]
    IN IF r < 0 THEN Exit(c, r, <<>>)
       ELSE [c EXCEPT !.superblock_magic = magic, !.pc = "dispatch"]

main_superblock(failed) ==
    LET r == disk_block_read(SuperBlockNo, failed)
        \* superblock_buffer is a zeroed global: the magic is there only if
        \* the read reached it
        magic == IF r >= MagicOffset + 4 THEN img.magic ELSE 0
        c == [Cur EXCEPT !.dreads = <<[blk |-> SuperBlockNo, as |-> "super"]>>]
    IN IF r < 0 THEN Exit(c, r, <<>>)
       ELSE IF magic # SUPER_MAGIC
       THEN Exit([c EXCEPT !.superblock_magic = magic], -1, <<"bad_magic">>)
       ELSE [c EXCEPT !.superblock_magic = magic, !.pc = "dispatch"]

main_unknown == Exit(Cur, -1, <<"unknown_parameters">>)

\* ---- the block loop of the path walk, shared text of unix_ls / unix_read
\* the state after inode_block_read returned r for block dirblock
WalkRead(r) ==
    [Cur EXCEPT !.dreads = r.reads, !.msgs = ResMsg(r),
                !.scans = <<[part |-> pathidx, dir |-> curdir, lblk |-> dirblock,
                             rv |-> r.rv, kind |-> "none", x |-> 0, ino |-> 0,
                             type |-> -1]>>]

\* the state after the entry loop ended with s
WalkScan(c0, buf, s) ==
    [c0 EXCEPT !.dir_buffer = buf, !.x = s.x, !.dir_inode_number = 0,
               !.scans[1].kind = s.kind, !.scans[1].x = s.x, !.scans[1].ino = s.ino]

\* ---- unix_ls ----------------------------------------------------------
unix_ls_root(ri) ==
    IF ~args.abs THEN Exit(Cur, -1, <<"invalid_path">>)
    ELSE IF ri.rv < 0 THEN Exit([Cur EXCEPT !.ireads = <<RootIno>>], ri.rv, <<>>)
    ELSE [Cur EXCEPT !.ireads = <<RootIno>>, !.dir_inode = ri.inode, !.pathidx = 1,
                     !.curdir = RootIno,
                     !.pc = IF args.path = <<>> THEN "ls_list" ELSE "ls_walk"]

unix_ls_start(ifail) == unix_ls_root(read_inode(RootIno, ifail))

\* after the block loop of one path component
LsNextPart(c) ==
    IF c.dir_inode_number = 0
    THEN Exit(c, -1, <<"nosuch_path_search">>)
    ELSE [c EXCEPT !.pathidx = @ + 1,
                   !.pc = IF c.pathidx = Len(args.path) THEN "ls_list" ELSE "ls_walk"]

\* "FOUND!": ri is the entry's inode, rd the same inode read again
unix_ls_found(s, ri, rd, c1) ==
    IF ri.rv < 0 THEN Exit([c1 EXCEPT !.ireads = <<s.ino>>], ri.rv, <<>>)
    ELSE IF ri.inode.type = INODE_FT_DIR
    THEN IF rd.rv < 0
         THEN Exit([c1 EXCEPT !.ireads = <<s.ino, s.ino>>,
                              !.scans[1].type = ri.inode.type,
                              !.dir_inode_number = s.ino], rd.rv, <<"blew_it">>)
         ELSE LsNextPart([c1 EXCEPT !.ireads = <<s.ino, s.ino>>,
                                    !.scans[1].type = ri.inode.type,
                                    !.dir_inode_number = s.ino, !.curdir = s.ino,
                                    !.dir_inode = rd.inode, !.dirblock = 0])
    ELSE LsNextPart([c1 EXCEPT !.ireads = <<s.ino>>,
                               !.scans[1].type = ri.inode.type])

unix_ls_entries(r, s, c0, c1, ifail) ==
    IF r.rv < 0 THEN Exit(c0, r.rv, <<>>)
    ELSE IF r.rv = 0 THEN Exit(c0, 0, <<>>)
    ELSE IF s.kind = "toolong" THEN Exit(c1, 0, <<"nosuch_image">>)
    ELSE IF s.kind = "match"
    THEN unix_ls_found(s, read_inode(s.ino, ifail = 1), read_inode(s.ino, ifail = 2), c1)
    ELSE IF s.x < EntriesPerBlock THEN LsNextPart(c1)
    ELSE [c1 EXCEPT !.dirblock = @ + 1]

unix_ls_scan(r, buf, s, c0, ifail) ==
    unix_ls_entries(r, s, c0, WalkScan(c0, buf, s), ifail)

unix_ls_block(r, buf, ifail) ==
    unix_ls_scan(r, buf, ScanBlock(buf, args.path[pathidx]), WalkRead(r), ifail)

\* one pass of "while (!done)" of the path walk
unix_ls_walk(fail, junk, dj, ifail) ==
    unix_ls_block(inode_block_read(dirblock, dir_inode, fail, junk),
                  BufferOf(inode_block_read(dirblock, dir_inode, fail, junk), dj),
                  ifail)

\* the mutant: the listing ends behind its first block, full or not
unix_ls_print_stop(r, buf, z, n, failing, c0) ==
    IF r.rv < 0 THEN Exit(c0, r.rv, <<>>)
    ELSE IF r.rv = 0 THEN Exit(c0, 0, <<>>)
    ELSE IF failing THEN Exit(c0, -1, <<>>)
    ELSE Exit(c0, 0, <<>>)

\* the listing of one block: z leading entries, of which n get listed before
\* the inode read of entry ifail fails (failing)
unix_ls_print(r, buf, z, n, failing, c0) ==
    IF r.rv < 0 THEN Exit(c0, r.rv, <<>>)
    ELSE IF r.rv = 0 THEN Exit(c0, 0, <<>>)
    ELSE IF failing THEN Exit(c0, -1, <<>>)
    ELSE IF z < EntriesPerBlock THEN Exit(c0, 0, <<>>)
    ELSE [c0 EXCEPT !.dirblock = @ + 1]

ListEntry(e, k) ==
    [lblk |-> dirblock, slot |-> k, name |-> e.name, ino |-> swap_hword(e.inode),
     type |-> read_inode(swap_hword(e.inode), FALSE).inode.type]

unix_ls_listed(r, buf, z, n, failing) ==
    unix_ls_print(r, buf, z, n, failing,
        IF r.rv <= 0
        THEN [Cur EXCEPT !.dreads = r.reads, !.msgs = ResMsg(r)]
        ELSE [Cur EXCEPT !.dreads = r.reads, !.msgs = ResMsg(r),
                  !.dir_buffer = buf, !.x = n,
                  !.ireads = [k \in 1..(IF failing THEN n + 1 ELSE z) |->
                                 swap_hword(BufEntry(buf, k).inode)],
                  !.lists = [k \in 1..n |-> ListEntry(BufEntry(buf, k), k)]])

unix_ls_leading(r, buf, z, ifail) ==
    unix_ls_listed(r, buf, z,
                   IF ifail >= 1 /\ ifail <= z THEN ifail - 1 ELSE z,
                   ifail >= 1 /\ ifail <= z)

\* one pass of "while (!done)" of the listing; ifail: the entry whose inode
\* read fails (0: none)
unix_ls_list(fail, junk, dj, ifail) ==
    unix_ls_leading(inode_block_read(dirblock, dir_inode, fail, junk),
                    BufferOf(inode_block_read(dirblock, dir_inode, fail, junk), dj),
                    Leading(BufferOf(inode_block_read(dirblock, dir_inode, fail, junk), dj)),
                    ifail)

\* ---- unix_read --------------------------------------------------------
\* after the path walk
RdAfterWalk(c) ==
    IF c.file_inode_number = 0
    THEN Exit(c, 0, <<"nosuch_file_read">>)
    ELSE [c EXCEPT !.pc = "rd_copy", !.x = 0, !.msgs = @ \o <<"copying">>]

\* the mutant: a regular file found early does not end the walk
RdNextPart_nocheck(c) ==
    IF c.dir_inode_number = 0 /\ c.file_inode_number = 0
    THEN Exit(c, -1, <<"nosuch_path_search">>)
    ELSE IF c.pathidx < Len(args.path)
    THEN [c EXCEPT !.pathidx = @ + 1]
    ELSE RdAfterWalk([c EXCEPT !.pathidx = @ + 1])

\* after the block loop of one path component, up to the next one's loop
RdNextPart(c) ==
    IF c.dir_inode_number = 0 /\ c.file_inode_number = 0
    THEN Exit(c, -1, <<"nosuch_path_search">>)
    ELSE IF c.pathidx < Len(args.path)
    THEN IF c.file_inode_number # 0
         THEN Exit([c EXCEPT !.pathidx = @ + 1], 0, <<"nosuch_early_file">>)
         ELSE [c EXCEPT !.pathidx = @ + 1]
    ELSE RdAfterWalk([c EXCEPT !.pathidx = @ + 1])

unix_read_root(openok, ri) ==
    IF ~args.abs THEN Exit(Cur, -1, <<"invalid_path">>)
    ELSE IF ~openok THEN Exit(Cur, -1, <<"perror_open">>)
    ELSE IF ri.rv < 0
    THEN Exit([Cur EXCEPT !.file_fd = "open", !.ireads = <<RootIno>>], ri.rv, <<>>)
    ELSE IF args.path = <<>>
    THEN RdAfterWalk([Cur EXCEPT !.file_fd = "open", !.ireads = <<RootIno>>,
                                 !.dir_inode = ri.inode, !.pathidx = 1,
                                 !.curdir = RootIno])
    ELSE [Cur EXCEPT !.file_fd = "open", !.ireads = <<RootIno>>,
                     !.dir_inode = ri.inode, !.pathidx = 1, !.curdir = RootIno,
                     !.pc = "rd_walk"]

unix_read_start(openok, ifail) == unix_read_root(openok, read_inode(RootIno, ifail))

\* "FOUND!": ri is the entry's inode (file_inode), rd the same inode read
\* again (dir_inode)
unix_read_found(s, ri, rd, c1) ==
    IF ri.rv < 0 THEN Exit([c1 EXCEPT !.ireads = <<s.ino>>], ri.rv, <<>>)
    ELSE IF ri.inode.type = INODE_FT_DIR
    THEN IF rd.rv < 0
         THEN Exit([c1 EXCEPT !.ireads = <<s.ino, s.ino>>, !.file_inode = ri.inode,
                              !.scans[1].type = ri.inode.type,
                              !.dir_inode_number = s.ino], rd.rv, <<>>)
         ELSE RdNextPart([c1 EXCEPT !.ireads = <<s.ino, s.ino>>,
                                    !.scans[1].type = ri.inode.type,
                                    !.file_inode = ri.inode,
                                    !.dir_inode_number = s.ino, !.curdir = s.ino,
                                    !.dir_inode = rd.inode, !.dirblock = 0])
    ELSE IF ri.inode.type = INODE_FT_FILE
    THEN RdNextPart([c1 EXCEPT !.ireads = <<s.ino>>, !.file_inode = ri.inode,
                               !.scans[1].type = ri.inode.type,
                               !.file_inode_number = s.ino])
    ELSE RdNextPart([c1 EXCEPT !.ireads = <<s.ino>>, !.file_inode = ri.inode,
                               !.scans[1].type = ri.inode.type])

unix_read_entries(r, s, c0, c1, ifail) ==
    IF r.rv < 0 THEN Exit(c0, r.rv, <<>>)
    ELSE IF r.rv = 0 THEN Exit(c0, 0, <<>>)
    ELSE IF s.kind = "toolong" THEN Exit(c1, 0, <<"nosuch_image">>)
    ELSE IF s.kind = "match"
    THEN unix_read_found(s, read_inode(s.ino, ifail = 1), read_inode(s.ino, ifail = 2), c1)
    ELSE IF s.x < EntriesPerBlock THEN RdNextPart(c1)
    ELSE [c1 EXCEPT !.dirblock = @ + 1]

unix_read_scan(r, buf, s, c0, ifail) ==
    unix_read_entries(r, s, c0, WalkScan(c0, buf, s), ifail)

unix_read_block(r, buf, ifail) ==
    unix_read_scan(r, buf, ScanBlock(buf, args.path[pathidx]), WalkRead(r), ifail)

\* one pass of "while (!done)" of the path walk
unix_read_walk(fail, junk, dj, ifail) ==
    unix_read_block(inode_block_read(dirblock, dir_inode, fail, junk),
                    BufferOf(inode_block_read(dirblock, dir_inode, fail, junk), dj),
                    ifail)

\* the mutant: the end of the address map ends the copy like the end of the file
unix_read_write_eof_ok(r, osize, wok, c0) ==
    IF r.rv < 0 THEN Exit(c0, r.rv, <<>>)
    ELSE IF r.rv = 0 THEN Exit([c0 EXCEPT !.file_fd = "closed"], 0, <<"wrote">>)
    ELSE IF ~wok THEN Exit(c0, -1, <<"perror_write">>)
    ELSE [c0 EXCEPT !.file_buffer = [blk |-> r.block, valid |-> r.rv, junk |-> "zero"],
                    !.writes = <<[lblk |-> fileblock, blk |-> r.block,
                                  len |-> osize, valid |-> r.rv]>>,
                    !.x = @ + osize, !.fileblock = @ + 1]

\* the copy of one block: osize bytes of the buffer that r filled
unix_read_write(r, osize, wok, c0) ==
    IF r.rv < 0 THEN Exit(c0, r.rv, <<>>)
    ELSE IF r.rv = 0 THEN Exit(c0, -1, <<"unexpected_eof">>)
    ELSE IF ~wok
    THEN Exit([c0 EXCEPT !.file_buffer = [blk |-> r.block, valid |-> r.rv,
                                          junk |-> "zero"]],
              -1, <<"perror_write">>)
    ELSE [c0 EXCEPT !.file_buffer = [blk |-> r.block, valid |-> r.rv, junk |-> "zero"],
                    !.writes = <<[lblk |-> fileblock, blk |-> r.block,
                                  len |-> osize, valid |-> r.rv]>>,
                    !.x = @ + osize, !.fileblock = @ + 1]

\* the mutant: every write is a whole block
unix_read_block_copy_whole(r, wok) ==
    unix_read_write(r, BlockSize, wok,
                    [Cur EXCEPT !.dreads = r.reads, !.msgs = ResMsg(r)])

unix_read_block_copy(r, wok) ==
    unix_read_write(r,
                    IF file_inode.size - x < BlockSize
                    THEN file_inode.size - x ELSE BlockSize,
                    wok,
                    [Cur EXCEPT !.dreads = r.reads, !.msgs = ResMsg(r)])

\* one pass of "while (x < file_inode.size)"
unix_read_copy(fail, junk, wok) ==
    unix_read_block_copy(inode_block_read(fileblock, file_inode, fail, junk), wok)

\* the loop ends: "Wrote ...", close(file_fd), return 0
unix_read_done == Exit([Cur EXCEPT !.file_fd = "closed"], 0, <<"wrote">>)

\* ------------------------------------------------------------------------
\* Actions
\* ------------------------------------------------------------------------
\* What the environment may choose in a step.  A choice that the step cannot
\* observe is left out: a resolver call for block adr makes at most FailMax(adr)
\* reads, it uses uninitialised table entries only behind the direct
\* addresses, and a directory buffer keeps older content only behind a short
\* read, which only the block at the end of the image gives.
FailMax(adr) == IF adr < NDirect THEN 1 ELSE IF adr < SingleLimit THEN 2 ELSE 3

JunkFor(adr) == IF adr < NDirect THEN {0} ELSE JunkBlocks

JunkDirFor == IF img.tail > 0 THEN JunkDir ELSE {"zero"}

\* the resolver call of a step, kept for the record
Called(adr, by, inode, fail, junk) ==
    call' = [adr |-> adr, by |-> by, fail |-> fail, junk |-> junk,
             res |-> inode_block_read(adr, inode, fail, junk)]

MainOpen ==
    /\ pc = "main"
    /\ \E ok \in BOOLEAN : Apply(main_open(ok))
    /\ UNCHANGED call

MainSuperblock ==
    /\ pc = "super"
    /\ \E failed \in BOOLEAN : Apply(main_superblock(failed))
    /\ UNCHANGED call

MainUnknown ==
    /\ pc = "dispatch" /\ args.cmd = "other"
    /\ Apply(main_unknown)
    /\ UNCHANGED call

LsStart ==
    /\ pc = "dispatch" /\ args.cmd = "ls"
    /\ \E ifail \in BOOLEAN : Apply(unix_ls_start(ifail))
    /\ UNCHANGED call

LsWalk ==
    /\ pc = "ls_walk"
    /\ \E fail \in 0..FailMax(dirblock), junk \in JunkFor(dirblock),
          dj \in JunkDirFor, ifail \in 0..2 :
          /\ Apply(unix_ls_walk(fail, junk, dj, ifail))
          /\ Called(dirblock, "walk", dir_inode, fail, junk)

LsList ==
    /\ pc = "ls_list"
    /\ \E fail \in 0..FailMax(dirblock), junk \in JunkFor(dirblock),
          dj \in JunkDirFor, ifail \in 0..MaxListFail :
          /\ Apply(unix_ls_list(fail, junk, dj, ifail))
          /\ Called(dirblock, "list", dir_inode, fail, junk)

ReadStart ==
    /\ pc = "dispatch" /\ args.cmd = "read"
    /\ \E openok \in BOOLEAN, ifail \in BOOLEAN : Apply(unix_read_start(openok, ifail))
    /\ UNCHANGED call

ReadWalk ==
    /\ pc = "rd_walk"
    /\ \E fail \in 0..FailMax(dirblock), junk \in JunkFor(dirblock),
          dj \in JunkDirFor, ifail \in 0..2 :
          /\ Apply(unix_read_walk(fail, junk, dj, ifail))
          /\ Called(dirblock, "walk", dir_inode, fail, junk)

ReadCopy ==
    /\ pc = "rd_copy" /\ x < file_inode.size
    /\ \E fail \in 0..FailMax(fileblock), junk \in JunkFor(fileblock),
          wok \in BOOLEAN :
          /\ Apply(unix_read_copy(fail, junk, wok))
          /\ Called(fileblock, "copy", file_inode, fail, junk)

ReadDone ==
    /\ pc = "rd_copy" /\ x >= file_inode.size
    /\ Apply(unix_read_done)
    /\ UNCHANGED call

Next ==
    \/ MainOpen \/ MainSuperblock \/ MainUnknown
    \/ LsStart \/ LsWalk \/ LsList
    \/ ReadStart \/ ReadWalk \/ ReadCopy \/ ReadDone

Spec == Init /\ [][Next]_vars

\* ------------------------------------------------------------------------
\* The block resolver on its own: calls of inode_block_read on the inode of
\* a file whose address map and image size are drawn from ResolveImages
\* ------------------------------------------------------------------------
SampleIdx == {0, NDirect - 1, NDirect, NDirect + 1, SingleLimit - 1, SingleLimit,
              SingleLimit + 1, SingleLimit + TableEntries - 1,
              SingleLimit + TableEntries, DoubleLimit - 1, DoubleLimit,
              DoubleLimit + 1}

ResolveImages ==
    {[DefaultImage EXCEPT !.fsize = m * BlockSize, !.mapLen = m, !.hole = h,
                          !.nblocks = n, !.tail = t] :
        m \in {0, NDirect, NDirect + 1, SingleLimit, SingleLimit + 1,
               SingleLimit + TableEntries + 1, DoubleLimit},
        h \in {-1, 0, NDirect, SingleLimit - 1, SingleLimit,
               SingleLimit + TableEntries, DoubleLimit - 1},
        n \in {WholeImage, T1, T3(0)},
        t \in {0, BlockSize \div 2}}

InitResolve ==
    /\ img \in ResolveImages
    /\ (img.nblocks = WholeImage => img.tail = 0)
    /\ img.hole < img.mapLen
    /\ args = [cmd |-> "read", abs |-> TRUE, path |-> <<Name.bin, Name.sh>>]
    /\ pc = "rcall"
    /\ file_inode = read_inode(Ino.sh, FALSE).inode
    /\ Locals

ResolveCall ==
    /\ pc = "rcall"
    /\ \E adr \in SampleIdx :
          \E fail \in 0..FailMax(adr), junk \in JunkFor(adr) :
             Called(adr, "test", file_inode, fail, junk)
    /\ pc' = "rret"
    /\ UNCHANGED <<img, args, disk_fd, file_fd, superblock_magic, dir_inode,
                   file_inode, pathidx, dirblock, fileblock, x, rv,
                   dir_inode_number, file_inode_number, dir_buffer, file_buffer,
                   out, listed, sink, disklog, inodelog, scanned, curdir>>

ResolveReturn ==
    /\ pc = "rret"
    /\ pc' = "rcall"
    /\ call' = NoCall
    /\ UNCHANGED <<img, args, disk_fd, file_fd, superblock_magic, dir_inode,
                   file_inode, pathidx, dirblock, fileblock, x, rv,
                   dir_inode_number, file_inode_number, dir_buffer, file_buffer,
                   out, listed, sink, disklog, inodelog, scanned, curdir>>

NextResolve == ResolveCall \/ ResolveReturn

SpecResolve == InitResolve /\ [][NextResolve]_vars

\* ------------------------------------------------------------------------
\* Properties
\* ------------------------------------------------------------------------
Has(seq, e) == \E k \in 1..Len(seq) : seq[k] = e

RECURSIVE SumLen(_)
SumLen(w) == IF w = <<>> THEN 0 ELSE w[1].len + SumLen(Tail(w))

MinOf(a, b) == IF a < b THEN a ELSE b

\* the run is in, or has left, the copy loop of unix_read
CopyPhase == args.cmd = "read" /\ (pc = "rd_copy" \/ (pc = "exit" /\ Has(out, "copying")))

\* the image's own account of the file the walk ended at: its size and the
\* physical block of its logical block i
CopySize == SizeOf(file_inode_number)

PhysOf(i) ==
    IF file_inode_number = Ino.sh THEN Phys(i)
    ELSE IF file_inode_number = Ino.foo /\ i = 0 THEN FooBlk ELSE 0

\* the reads of the file's data blocks made so far
CopyReads ==
    SelectSeq(disklog, LAMBDA d : d.as = "data" /\
                 \E i \in 0..(Blocks(CopySize) - 1) : d.blk = PhysOf(i))

\* every logical block of the file's size has a physical block, and the image
\* holds it (and the indirect table that names it) in full
AllMapped ==
    /\ \A i \in 0..(Blocks(CopySize) - 1) : PhysOf(i) # 0 /\ PhysOf(i) < img.nblocks
    /\ (Blocks(CopySize) > NDirect => T1 < img.nblocks)

\* C1: for a regular file of S bytes whose logical blocks 0..ceil(S/1024)-1 all
\* have a non-zero physical block that the image delivers, the copy loop of
\* unix_read writes the blocks in increasing logical order, write k being the
\* first min(1024, S - alreadyWritten) bytes of logical block k; it never ends
\* with "unexpected end-of-file"; when it returns 0 it has written S bytes in
\* ceil(S/1024) writes after reading exactly ceil(S/1024) data blocks, and
\* nothing when S = 0.  (A run cut short by a failing read or write of the
\* environment returns -1.)
C1_ExtractWritesSize ==
    (CopyPhase /\ AllMapped) =>
        /\ \A k \in 1..Len(sink) :
              /\ sink[k].lblk = k - 1
              /\ sink[k].blk = PhysOf(k - 1)
              /\ sink[k].len = MinOf(BlockSize, CopySize - (k - 1) * BlockSize)
              /\ sink[k].len <= sink[k].valid
        /\ Len(sink) <= Blocks(CopySize)
        /\ ~Has(out, "unexpected_eof")
        /\ (pc = "exit" => rv = 0 \/ rv = -1)
        /\ (pc = "exit" /\ rv = 0 =>
              /\ Has(out, "wrote")
              /\ SumLen(sink) = CopySize
              /\ Len(sink) = Blocks(CopySize)
              /\ Len(CopyReads) = Blocks(CopySize))
        /\ (CopySize = 0 => sink = <<>>)

\* a file that reaches into the indirect table and ends in a partial block
\* has been copied
C1_Witness ==
    /\ CopyPhase /\ AllMapped /\ pc = "exit" /\ rv = 0
    /\ file_inode_number = Ino.sh
    /\ img.fsize > NDirect * BlockSize /\ img.fsize % BlockSize # 0
    /\ Len(sink) = Blocks(img.fsize)

\* C2: when the resolver signals EOF (returns 0) for logical block k of the
\* copy loop, k * 1024 < size, unix_read prints "Unexpected end-of-file" and
\* returns -1, having written nothing for block k or a later one; and a copy
\* that returns 0 has written size bytes.
C2_EofFailsExtract ==
    /\ (call.by = "copy" /\ call.res.rv = 0 /\ call.adr * BlockSize < file_inode.size) =>
          /\ pc = "exit" /\ rv < 0
          /\ Has(out, "unexpected_eof")
          /\ ~Has(out, "wrote")
          /\ \A k \in 1..Len(sink) : sink[k].lblk < call.adr
    /\ (CopyPhase /\ pc = "exit" /\ rv = 0) => SumLen(sink) = file_inode.size

\* the address map ended behind the first blocks of the file
C2_Witness ==
    /\ call.by = "copy" /\ call.res.rv = 0 /\ call.adr > 0
    /\ Len(sink) = call.adr /\ pc = "exit"

\* ---- the directories as the image holds them ---------------------------
\* every read of the run finds its block in the image, in full
FullReads == img.nblocks = WholeImage

\* the inode number an entry of the image stores
TrueIno(e) ==
    CHOOSE i \in {0, Ino.root, Ino.bin, Ino.sh, Ino.foo, Ino.tty} :
        e = Entry(i, e.name)

\* the number of entries of a block in front of its first zero-inode entry
TrueLead(blk) ==
    IF \A k \in 1..EntriesPerBlock : TrueIno(blk[k]) # 0 THEN EntriesPerBlock
    ELSE Min({k \in 1..EntriesPerBlock : TrueIno(blk[k]) = 0}) - 1

\* the first of these entries whose 14-byte name field is s (0: none)
TrueMatch(blk, s) ==
    FirstOf({k \in 1..TrueLead(blk) : blk[k].name = PadName(s)})

\* the scans of path component p
ScansOf(p) == SelectSeq(scanned, LAMBDA s : s.part = p)

\* the lookup of component p is over and no read of it failed
LookupOver(p) ==
    /\ scanned # <<>> /\ Len(args.path) >= p /\ Len(args.path[p]) <= NameLen
    /\ (pc = "exit" \/ pathidx > p)
    /\ \A k \in 1..Len(ScansOf(p)) : ScansOf(p)[k].rv >= 0
    /\ FullReads

\* C3 (as amended): the lookup of a path component scans logical blocks
\* 0, 1, 2, ... of the current directory in order and goes on to block k + 1
\* only when block k holds 64 non-zero entries none of which matches; it ends
\* at the first match, at the first block that has a zero-inode entry, or
\* when the resolver signals EOF.  In a block it finds the first entry in
\* front of the block's first zero-inode entry whose name field is the
\* component, and returns that entry's inode number.
C3_LookupStopsAtShortBlock ==
    \A k \in 1..Len(scanned) :
        LET s == scanned[k]
            blks == DirBlocks(s.dir)
        IN /\ (k = 1 => s.part = 1 /\ s.dir = RootIno /\ s.lblk = 0)
           /\ (k > 1 =>
                 \/ /\ s.part = scanned[k - 1].part /\ s.dir = scanned[k - 1].dir
                    /\ s.lblk = scanned[k - 1].lblk + 1
                    /\ scanned[k - 1].kind = "nomatch"
                    /\ scanned[k - 1].x = EntriesPerBlock
                 \/ /\ s.part = scanned[k - 1].part + 1 /\ s.lblk = 0
                    /\ scanned[k - 1].kind = "match"
                    /\ scanned[k - 1].type = INODE_FT_DIR
                    /\ s.dir = scanned[k - 1].ino)
           /\ (k = Len(scanned) /\ s.kind = "nomatch" /\ s.x < EntriesPerBlock
                 => pc = "exit")
           /\ (s.rv >= 0 /\ FullReads /\ Len(args.path[s.part]) <= NameLen =>
                 IF s.lblk >= Len(blks)
                 THEN s.rv = 0 /\ s.kind = "none"
                 ELSE /\ s.rv = BlockSize
                      /\ IF TrueMatch(blks[s.lblk + 1], args.path[s.part]) # 0
                         THEN /\ s.kind = "match"
                              /\ s.x = TrueMatch(blks[s.lblk + 1], args.path[s.part]) - 1
                              /\ s.ino = TrueIno(blks[s.lblk + 1][s.x + 1])
                         ELSE /\ s.kind = "nomatch"
                              /\ s.x = TrueLead(blks[s.lblk + 1]))

\* bin was found in the second block of the root, behind a full first block
C3_Witness ==
    \E k \in 1..Len(scanned) :
        /\ scanned[k].lblk = 1 /\ scanned[k].kind = "match"
        /\ scanned[k].dir = RootIno /\ scanned[k].ino = Ino.bin
        /\ scanned[k - 1].x = EntriesPerBlock

\* C3 (as claimed): the lookup goes through all blocks of the directory up to
\* the resolver's EOF, so that a name that some block of the root holds (in
\* front of that block's first zero-inode entry) is found whatever the
\* earlier blocks hold.
C3_LookupScansAllBlocks ==
    LookupOver(1) =>
        \A b \in 1..Len(DirBlocks(RootIno)) :
            TrueMatch(DirBlocks(RootIno)[b], args.path[1]) # 0 =>
                \E k \in 1..Len(scanned) :
                    /\ scanned[k].part = 1 /\ scanned[k].kind = "match"
                    /\ scanned[k].ino \in
                          {TrueIno(DirBlocks(RootIno)[c][TrueMatch(DirBlocks(RootIno)[c],
                                                                  args.path[1])]) :
                             c \in {d \in 1..Len(DirBlocks(RootIno)) :
                                      TrueMatch(DirBlocks(RootIno)[d], args.path[1]) # 0}}

\* ---- a name the directory does not hold --------------------------------
LastScan == scanned[Len(scanned)]

\* no entry of the directory, in any slot of any block, has the name s
AbsentIn(dir, s) ==
    \A b \in 1..Len(DirBlocks(dir)) : \A k \in 1..EntriesPerBlock :
        TrueIno(DirBlocks(dir)[b][k]) = 0 \/ DirBlocks(dir)[b][k].name # PadName(s)

\* one of the tool's "No such file or directory" lines was printed
NotFoundReported ==
    \E m \in {"nosuch_image", "nosuch_path_search", "nosuch_early_file",
              "nosuch_file_read"} : Has(out, m)

\* C4 (as claimed): when a path component of at most 14 bytes matches no entry
\* of the directory it is looked up in, the run of ls or read ends with the
\* "no such file" outcome reported, whatever the directory's shape: also when
\* the scan ends by the resolver signalling EOF behind a last block of 64
\* non-zero entries.
C4_AbsentIsNotFound ==
    (scanned # <<>> /\ pc = "exit" /\ LookupOver(LastScan.part)
        /\ AbsentIn(LastScan.dir, args.path[LastScan.part]))
    => NotFoundReported

\* ---- path resolution ----------------------------------------------------
\* C5: the walk starts at inode 2 and looks every component up from logical
\* block 0 of the current directory; a DIR match makes that inode the current
\* directory with the block index back at 0; in unix_read a FILE match on the
\* last component is the file that is copied (inode 42 for /bin/sh under a
\* root holding bin -> 10 and bin holding sh -> 42); a FILE match on an
\* earlier component ends the run with the "found regular file early" line,
\* nothing copied and nothing ever written to the sink.
C5_ResolvePath ==
    /\ (inodelog # <<>> => inodelog[1] = RootIno)
    /\ \A k \in 1..Len(scanned) :
          /\ (k = 1 => scanned[k].dir = RootIno /\ scanned[k].lblk = 0)
          /\ (k > 1 /\ scanned[k].part # scanned[k - 1].part =>
                /\ scanned[k - 1].kind = "match"
                /\ scanned[k - 1].type = INODE_FT_DIR
                /\ scanned[k].dir = scanned[k - 1].ino
                /\ scanned[k].lblk = 0)
    /\ (scanned # <<>> /\ LastScan.kind = "match" /\ LastScan.type = INODE_FT_DIR
        /\ pc # "exit" /\ call.by = "walk" =>
          /\ dirblock = 0 /\ curdir = LastScan.ino
          /\ dir_inode.type = INODE_FT_DIR
          /\ dir_inode.addr = AddrOf(LastScan.ino))
    /\ (args.cmd = "read" /\ scanned # <<>> /\ LastScan.kind = "match"
        /\ LastScan.type = INODE_FT_FILE =>
          IF LastScan.part = Len(args.path)
          THEN /\ CopyPhase
               /\ file_inode_number = LastScan.ino
               /\ file_inode.type = INODE_FT_FILE
               /\ file_inode.size = SizeOf(LastScan.ino)
               /\ file_inode.addr = AddrOf(LastScan.ino)
          ELSE /\ pc = "exit" /\ Has(out, "nosuch_early_file")
               /\ ~Has(out, "copying") /\ sink = <<>> /\ fileblock = 0)
    /\ (CopyPhase =>
          /\ scanned # <<>> /\ LastScan.kind = "match"
          /\ LastScan.type = INODE_FT_FILE /\ LastScan.part = Len(args.path))
    /\ (CopyPhase /\ args.path = <<Name.bin, Name.sh>> =>
          /\ file_inode_number = 42
          /\ \E k \in 1..Len(scanned) :
                /\ scanned[k].part = 1 /\ scanned[k].dir = RootIno
                /\ scanned[k].kind = "match" /\ scanned[k].ino = 10
                /\ scanned[k].type = INODE_FT_DIR)

\* /bin/sh/x was asked for: sh is a regular file in the middle of the path
C5_Witness ==
    /\ args.cmd = "read" /\ args.path = <<Name.bin, Name.sh, Name.x>>
    /\ pc = "exit" /\ Has(out, "nosuch_early_file") /\ sink = <<>>
    /\ LastScan.ino = 42 /\ LastScan.type = INODE_FT_FILE

\* ---- the listing ---------------------------------------------------------
RECURSIVE ListFrom(_, _)
\* what the directory dir holds from its block b (1-based) on, as far as a
\* listing that ends at the first zero-inode entry shows it
ListFrom(dir, b) ==
    IF b > Len(DirBlocks(dir)) THEN <<>>
    ELSE [k \in 1..TrueLead(DirBlocks(dir)[b]) |->
             [lblk |-> b - 1, slot |-> k, name |-> DirBlocks(dir)[b][k].name,
              ino |-> TrueIno(DirBlocks(dir)[b][k]),
              type |-> TypeOf(TrueIno(DirBlocks(dir)[b][k]))]]
         \o (IF TrueLead(DirBlocks(dir)[b]) = EntriesPerBlock
             THEN ListFrom(dir, b + 1) ELSE <<>>)

IsPrefix(a, b) == Len(a) <= Len(b) /\ \A k \in 1..Len(a) : a[k] = b[k]

\* the listing loop of unix_ls ran to its end
ListingDone ==
    args.cmd = "ls" /\ pc = "exit" /\ rv = 0 /\ pathidx = Len(args.path) + 1

OperationBegun ==
    \/ pc \in {"ls_walk", "ls_list", "rd_walk", "rd_copy"}
    \/ inodelog # <<>> \/ scanned # <<>> \/ listed # <<>> \/ sink # <<>>
    \/ file_fd = "open"
    \/ \E k \in 1..Len(disklog) : disklog[k].as # "super"

\* C7: with a magic other than 0x207E18FD in block 1 of the image the run
\* ends with a non-zero result (the "Bad superblock magic" line, when the
\* read of block 1 did not fail) and reads no inode, walks no directory,
\* creates no output file and writes nothing; and neither ls nor read begins
\* before block 1 was read, as the first read of the run, and its magic was
\* found to be 0x207E18FD.
C7_MagicGate ==
    /\ (img.magic # SUPER_MAGIC =>
          /\ ~OperationBegun
          /\ pc \in {"main", "super", "exit"}
          /\ (pc = "exit" => rv # 0)
          /\ (pc = "exit" /\ disk_fd = "open" /\ ~Has(out, "bad_magic") => rv < 0 /\ out = <<>>))
    /\ (OperationBegun \/ pc = "dispatch" =>
          /\ disklog # <<>> /\ disklog[1] = [blk |-> SuperBlockNo, as |-> "super"]
          /\ superblock_magic = SUPER_MAGIC /\ img.magic = SUPER_MAGIC
          /\ disk_fd = "open")

\* an image whose magic is 0 was turned down
C7_Witness ==
    /\ img.magic = 0 /\ pc = "exit" /\ rv = -1 /\ Has(out, "bad_magic")
    /\ disklog = <<[blk |-> SuperBlockNo, as |-> "super"]>>

\* ---- the block resolver --------------------------------------------------
\* the indirect tables on the way to logical block adr are part of the
\* file's address map, and the image holds them in full
TablesThere(adr) ==
    IF adr < NDirect THEN TRUE
    ELSE IF adr < SingleLimit
    THEN img.mapLen > NDirect /\ T1 < img.nblocks
    ELSE /\ img.mapLen > SingleLimit + ((adr - SingleLimit) \div TableEntries) * TableEntries
         /\ T2 < img.nblocks
         /\ T3((adr - SingleLimit) \div TableEntries) < img.nblocks

TableReads(r) == SelectSeq(r.reads, LAMBDA d : d.as = "table")

\* C8 (as claimed): a physical block value of 0 means hole/EOF on every path:
\* when the direct address, the single-indirect table entry or the
\* second-level table entry of logical block adr is 0, inode_block_read
\* returns 0 and reads no block 0 of the image.
C8_ZeroMeansEof ==
    (pc = "rret" /\ call.fail = 0 /\ call.adr < DoubleLimit
       /\ TablesThere(call.adr) /\ Phys(call.adr) = 0)
    => /\ call.res.rv = 0
       /\ \A k \in 1..Len(call.res.reads) : call.res.reads[k].blk # 0

\* C9: the block the resolver selects for logical block adr < 65802 is
\* addr[adr] for adr < 10; entry adr - 10 of the table at addr[10] for
\* 10 <= adr < 266; entry (adr - 266) mod 256 of the table named by entry
\* (adr - 266) div 256 of the table at addr[11] for 266 <= adr < 65802.  Every
\* table index lies in 0..255; 265 is resolved through one table, 266 and
\* 65801 through two.  (An entry is what the image holds where the table is
\* part of the address map and the image holds it in full.)
C9_SelectedBlock ==
    (pc = "rret" /\ call.adr < DoubleLimit) =>
        /\ \A k \in 1..Len(call.res.offs) :
              call.res.offs[k] >= 0 /\ call.res.offs[k] < TableEntries
        /\ IF call.adr < NDirect
           THEN /\ call.res.offs = <<>> /\ TableReads(call.res) = <<>>
                /\ call.res.block = AddrOf(Ino.sh)[call.adr + 1]
                /\ call.res.block = Phys(call.adr)
                /\ call.res.reads =
                      (IF call.res.block > 0 THEN <<DRead(call.res.block)>> ELSE <<>>)
           ELSE IF call.adr < SingleLimit
           THEN /\ call.res.offs = <<call.adr - NDirect>>
                /\ call.res.reads[1] = TRead(AddrOf(Ino.sh)[NDirect + 1])
                /\ (call.fail # 1 /\ TablesThere(call.adr) =>
                      /\ call.res.block = TableValue(T1, call.adr - NDirect)
                      /\ call.res.block = Phys(call.adr)
                      /\ call.res.reads = <<TRead(T1), DRead(call.res.block)>>)
           ELSE /\ call.res.offs = <<(call.adr - SingleLimit) \div TableEntries,
                                     (call.adr - SingleLimit) % TableEntries>>
                /\ call.res.reads[1] = TRead(AddrOf(Ino.sh)[NDirect + 2])
                /\ (call.fail \notin {1, 2} /\ TablesThere(call.adr) =>
                      /\ call.res.reads[2] = TRead(TableValue(T2, call.res.offs[1]))
                      /\ call.res.block =
                            TableValue(call.res.reads[2].blk, call.res.offs[2])
                      /\ call.res.block = Phys(call.adr)
                      /\ call.res.reads[3] = DRead(call.res.block)
                      /\ Len(call.res.reads) = 3)
        /\ (call.adr \in {SingleLimit - 1} => Len(call.res.offs) = 1)
        /\ (call.adr \in {SingleLimit, DoubleLimit - 1} => Len(call.res.offs) = 2)

\* the last block of the double-indirect tier was resolved and read
C9_Witness ==
    /\ pc = "rret" /\ call.adr = DoubleLimit - 1 /\ call.fail = 0
    /\ TablesThere(call.adr)
    /\ call.res.block = DataBlk(DoubleLimit - 1) /\ call.res.rv = BlockSize
    /\ call.res.offs = <<TableEntries - 1, TableEntries - 1>>

\* C10: a resolver call reads no indirect table for adr < 10, one for
\* 10 <= adr < 266 and two for 266 <= adr < 65802; for adr >= 65802 it prints
\* "Further indirection required" and returns -1 without reading any block;
\* and when the read of a table fails, the call returns that error at once:
\* the failed read is its last read.
C10_TableReadsByTier ==
    pc = "rret" =>
        /\ (call.adr < NDirect => Len(TableReads(call.res)) = 0)
        /\ (call.adr >= NDirect /\ call.adr < SingleLimit =>
              Len(TableReads(call.res)) = 1)
        /\ (call.adr >= SingleLimit /\ call.adr < DoubleLimit =>
              Len(TableReads(call.res)) = (IF call.fail = 1 THEN 1 ELSE 2))
        /\ (call.adr >= DoubleLimit =>
              call.res.rv < 0 /\ call.res.reads = <<>> /\ call.res.msg)
        /\ (call.adr < DoubleLimit => ~call.res.msg)
        /\ ((call.adr >= NDirect /\ call.adr < SingleLimit /\ call.fail = 1)
            \/ (call.adr >= SingleLimit /\ call.adr < DoubleLimit /\ call.fail \in {1, 2})
              => /\ call.res.rv = -1
                 /\ Len(call.res.reads) = call.fail
                 /\ call.res.reads[call.fail].as = "table"
                 /\ call.res.block = -1)

\* the read of the second-level table failed
C10_Witness ==
    /\ pc = "rret" /\ call.adr = SingleLimit /\ call.fail = 2
    /\ call.res.rv = -1 /\ Len(call.res.reads) = 2

\* ---- the block device ----------------------------------------------------
\* the image does not hold block b in full: a read of it delivers fewer than
\* 1024 bytes (none at all behind the image's end)
ShortBlock(b) == b >= img.nblocks

\* C11 (as claimed): a read of a block delivers 1024 bytes or fails: when a
\* resolver call reads a block that the image does not hold in full, that read
\* is the call's last, the call returns an error, and the caller gives up
\* with that error: the short read counts neither as a block read nor as the
\* end of the file or directory.
C11_ShortReadIsError ==
    \A k \in 1..Len(call.res.reads) :
        (call.by # "none" /\ ShortBlock(call.res.reads[k].blk)) =>
            /\ k = Len(call.res.reads)
            /\ call.res.rv < 0
            /\ pc = "exit" /\ rv < 0
            /\ ~Has(out, "unexpected_eof")
            /\ \A w \in 1..Len(sink) : sink[w].valid = BlockSize

\* ---- the handles ---------------------------------------------------------
\* C12 (as claimed): when a run of ls or read that got past the superblock
\* returns, on whichever path, no handle it opened is still open: neither
\* the image's (disk_fd) nor, for read, the output file's (file_fd).
C12_HandlesReleased ==
    (pc = "exit" /\ args.cmd \in {"ls", "read"} /\ superblock_magic = SUPER_MAGIC)
    => disk_fd # "open" /\ file_fd # "open"

====
